---- MODULE Spec2Model ----
(***************************************************************************)
(* Saturation states of calcite and aragonite (PyCO2SYS/solubility.py).    *)
(*                                                                         *)
(* Representation of the floating-point quantities of the source:          *)
(*   - an "Fx" number is a real x held as the integer x * One (One = 10^5);    *)
(*     temperatures, salinities, pressures, concentrations, the log10 of   *)
(*     a solubility product and the exponents given to exp are Fx;         *)
(*   - a solubility product or a saturation ratio spans many decades, so   *)
(*     it is held as an "LReal" [sgn, ln]: the real sgn * exp(ln / One),     *)
(*     with sgn in {-1, 0, 1}, or NonFinite for a division by zero.        *)
(*     Products, quotients, exp and 10 ** x are exact on LReals.           *)
(* Every product a * b / c is taken by MulDiv, which never forms a * b, so *)
(* that all intermediates stay inside TLC's 32-bit integers.               *)
(***************************************************************************)
EXTENDS Integers, Sequences, FiniteSets, TLC

\* Fx scale: one unit is 10^-5.
One == 10 ^ 5

Abs(x) == IF x < 0 THEN -x ELSE x

Sgn(x) == IF x < 0 THEN -1 ELSE IF x = 0 THEN 0 ELSE 1

\* One step of long multiplication in radix B: from <<q, r>> = h with
\* a * b1 = q * c + r to the pair for a * (B * b1 + d).
MulDivStep(h, a, d, c, B) ==
    <<B * h[1] + d * (a \div c) + (B * h[2] + d * (a % c)) \div c,
      (B * h[2] + d * (a % c)) % c>>

\* <<q, r>> with a * b = q * c + r and 0 <= r < c, for a, b >= 0 and c > 0,
\* over the digits of b in radix B, where 2 * B * c fits a 32-bit integer.
RECURSIVE MulDivQR(_, _, _, _)
MulDivQR(a, b, c, B) ==
    IF b = 0 THEN <<0, 0>>
    ELSE MulDivStep(MulDivQR(a, b \div B, c, B), a, b % B, c, B)

\* The quotient of qr = <<q, r>> rounded to nearest, half away from zero.
RoundQR(qr, c) == qr[1] + (IF 2 * qr[2] >= c THEN 1 ELSE 0)

\* a * b / c rounded to the nearest integer, c > 0.
MulDiv(a, b, c) ==
    Sgn(a) * Sgn(b) * RoundQR(MulDivQR(Abs(a), Abs(b), c, 1073741823 \div c), c)

\* Fx product and quotient.
MulFx(a, b) == MulDiv(a, b, One)

DivFx(a, b) == Sgn(b) * MulDiv(a, One, Abs(b))

\* The literal num / den of the source times the Fx number x.
Coef(num, den, x) == MulDiv(x, num, den)

\* ln 2 and ln 10 as Fx numbers.
Ln2 == 69315

Ln10 == 230259

\* x / 2^n in [1, 2) for an Fx number x > 0: <<n, x / 2^n>>.
RECURSIVE Reduce2(_, _)
Reduce2(x, n) ==
    IF x >= 2 * One THEN Reduce2(x \div 2, n + 1)
    ELSE IF x < One THEN Reduce2(2 * x, n - 1)
    ELSE <<n, x>>

\* atanh(z) for an Fx number |z| <= 1/3, by its series in z2 = z * z.
AtanhSeries(z, z2) ==
    MulFx(z, One + MulFx(z2, One \div 3 + MulFx(z2, One \div 5 + MulFx(z2, One \div 7
          + MulFx(z2, One \div 9 + MulFx(z2, One \div 11 + MulFx(z2, One \div 13)))))))

Atanh(z) == AtanhSeries(z, MulFx(z, z))

\* ln(y * 2^n) = n ln 2 + 2 atanh((y - 1) / (y + 1)), for red = <<n, y>>.
LnReduced(red) == red[1] * Ln2 + 2 * Atanh(MulDiv(red[2] - One, One, red[2] + One))

\* Natural logarithm of an Fx number x > 0.
Ln(x) == LnReduced(Reduce2(x, 0))

\* numpy log10.
log10(x) == MulDiv(Ln(x), One, Ln10)

\* Newton's iteration r <- (r + x / r) / 2 from a start r >= sqrt(x), until
\* the iterate r2 stops decreasing.
RECURSIVE SqrtFrom(_, _)
SqrtNext(x, r, r2) == IF r2 >= r THEN r ELSE SqrtFrom(x, r2)

SqrtFrom(x, r) == SqrtNext(x, r, (r + DivFx(x, r)) \div 2)

\* numpy sqrt, for an Fx number x >= 0.
sqrt(x) == IF x <= 0 THEN 0 ELSE SqrtFrom(x, x + One)

\* Newton's iteration r <- (2 r + x / r^2) / 3 from a start r >= x^(1/3).
RECURSIVE CbrtFrom(_, _)
CbrtNext(x, r, r2) == IF r2 >= r THEN r ELSE CbrtFrom(x, r2)

CbrtFrom(x, r) == CbrtNext(x, r, (2 * r + DivFx(DivFx(x, r), r)) \div 3)

\* x ** (1 / 3), for an Fx number x >= 0.
Cbrt(x) == IF x <= 0 THEN 0 ELSE CbrtFrom(x, x + One)

\* The literal num / den of the source as an Fx number.
Lit(num, den) == MulDiv(One, num, den)

--------------------------------------------------------------------------
\* LReal arithmetic: the real sgn * exp(ln / One); fin = FALSE is inf or nan.

NonFinite == [fin |-> FALSE, sgn |-> 0, ln |-> 0]

LZero == [fin |-> TRUE, sgn |-> 0, ln |-> 0]

\* An Fx number as an LReal.
LFromFx(x) ==
    IF x = 0 THEN LZero ELSE [fin |-> TRUE, sgn |-> Sgn(x), ln |-> Ln(Abs(x))]

\* numpy exp of an Fx number.
exp(x) == [fin |-> TRUE, sgn |-> 1, ln |-> x]

\* 10.0 ** x for an Fx number x.
Pow10(x) == [fin |-> TRUE, sgn |-> 1, ln |-> MulFx(x, Ln10)]

\* a * b.
LMul(a, b) ==
    IF ~a.fin \/ ~b.fin THEN NonFinite
    ELSE IF a.sgn * b.sgn = 0 THEN LZero
    ELSE [fin |-> TRUE, sgn |-> a.sgn * b.sgn, ln |-> a.ln + b.ln]

\* a / b; a division by zero gives inf or nan.
LDiv(a, b) ==
    IF ~a.fin \/ ~b.fin \/ b.sgn = 0 THEN NonFinite
    ELSE IF a.sgn = 0 THEN LZero
    ELSE [fin |-> TRUE, sgn |-> a.sgn * b.sgn, ln |-> a.ln - b.ln]

\* a < b, for finite a and b.
LLess(a, b) ==
    /\ a.fin /\ b.fin
    /\ \/ a.sgn < b.sgn
       \/ a.sgn = 1 /\ b.sgn = 1 /\ a.ln < b.ln
       \/ a.sgn = -1 /\ b.sgn = -1 /\ a.ln > b.ln

--------------------------------------------------------------------------
\* convert.py and constants.py

TempC2K(TempC) == TempC + Lit(27315, 100)

TempK2C(TempK) == TempK - Lit(27315, 100)

Pdbar2bar(Pdbar) == MulDiv(Pdbar, 1, 10)

\* 83.1451 ml bar-1 K-1 mol-1.
RGasConstant == 8314510

--------------------------------------------------------------------------
\* solubility.py

\* num / (RGasConstant * TempK) times Pbar, the argument of every pressure
\* correction; evaluated as ((num * Pbar) / RGasConstant) / TempK.
OverRT(num, Pbar, TempK) == DivFx(MulDiv(num, Pbar, RGasConstant), TempK)

\* <<deltaVKCa, KappaKCa>>.
deltaKappaCalcite_I75(TempC) ==
    LET deltaVKCa == Lit(-4876, 100) + Coef(5304, 10000, TempC)
        KappaKCa == MulDiv(Lit(-1176, 100) + Coef(3692, 10000, TempC), 1, 1000)
    IN  <<deltaVKCa, KappaKCa>>

\* log10 of the zero-pressure calcite solubility product.
logKCa_M83(TempK, Sal) ==
    Lit(-1719065, 10000) - Coef(77993, 10 ^ 6, TempK) + DivFx(Lit(2839319, 1000), TempK)
    + Coef(71595, 1000, log10(TempK))
    + MulFx(Lit(-77712, 10 ^ 5) + Coef(28426, 10 ^ 7, TempK)
                + DivFx(Lit(17834, 100), TempK),
            sqrt(Sal))
    - Coef(7711, 10 ^ 5, Sal) + MulFx(Coef(41249, 10 ^ 7, sqrt(Sal)), Sal)

\* lnKCafac with the linear term not multiplied by Pbar: a correction that
\* does not vanish at the surface.
lnKCafac_PressureDropped(TempK, Pbar) ==
    LET TempC == TempK2C(TempK)
        dk == deltaKappaCalcite_I75(TempC)
        deltaVKCa == dk[1]
        KappaKCa == dk[2]
    IN  OverRT(-deltaVKCa + MulDiv(KappaKCa, Pbar, 2 * One), One, TempK)

\* The exponent of the calcite pressure correction [I75, M79].
lnKCafac(TempK, Pbar) ==
    LET TempC == TempK2C(TempK)
        dk == deltaKappaCalcite_I75(TempC)
        deltaVKCa == dk[1]
        KappaKCa == dk[2]
    IN  OverRT(-deltaVKCa + MulDiv(KappaKCa, Pbar, 2 * One), Pbar, TempK)

k_calcite_M83(TempK, Sal, Pbar) ==
    LMul(Pow10(logKCa_M83(TempK, Sal)), exp(lnKCafac(TempK, Pbar)))

\* log10 of the zero-pressure aragonite solubility product.
logKAr_M83(TempK, Sal) ==
    Lit(-171945, 1000) - Coef(77993, 10 ^ 6, TempK) + DivFx(Lit(2903293, 1000), TempK)
    + Coef(71595, 1000, log10(TempK))
    + MulFx(Lit(-68393, 10 ^ 6) + Coef(17276, 10 ^ 7, TempK)
                + DivFx(Lit(88135, 1000), TempK),
            sqrt(Sal))
    - Coef(10018, 10 ^ 5, Sal) + MulFx(Coef(59415, 10 ^ 7, sqrt(Sal)), Sal)

\* deltaKappaAragonite without the 2.8 offset: aragonite corrected as calcite.
deltaKappaAragonite_NoOffset(TempC) ==
    LET dk == deltaKappaCalcite_I75(TempC)
        deltaVKCa == dk[1]
        KappaKCa == dk[2]
        deltaVKAr == deltaVKCa
        KappaKAr == KappaKCa
    IN  <<deltaVKAr, KappaKAr>>

\* <<deltaVKAr, KappaKAr>> of the aragonite pressure correction [M79].
deltaKappaAragonite(TempC) ==
    LET dk == deltaKappaCalcite_I75(TempC)
        deltaVKCa == dk[1]
        KappaKCa == dk[2]
        deltaVKAr == deltaVKCa + Lit(28, 10)
        KappaKAr == KappaKCa
    IN  <<deltaVKAr, KappaKAr>>

\* The exponent of the aragonite pressure correction.
lnKArfac(TempK, Pbar) ==
    LET TempC == TempK2C(TempK)
        dk == deltaKappaAragonite(TempC)
        deltaVKAr == dk[1]
        KappaKAr == dk[2]
    IN  OverRT(-deltaVKAr + MulDiv(KappaKAr, Pbar, 2 * One), Pbar, TempK)

k_aragonite_M83(TempK, Sal, Pbar) ==
    LMul(Pow10(logKAr_M83(TempK, Sal)), exp(lnKArfac(TempK, Pbar)))

\* polyKCa_I75 with the natural logarithm of Sal in place of log10.
polyKCa_I75_NaturalLog(TempK, Sal) ==
    Lit(-34452, 1000) - Coef(39866, 1000, Cbrt(Sal)) + Coef(11021, 100, Ln(Sal))
    - Coef(75752, 10 ^ 8, MulDiv(TempK, TempK, 100 * One))

\* The bracket of the ICHP73 fit; 0.0000075752 * TempK ** 2 is evaluated as
\* 0.00075752 * (TempK * TempK / 100).
polyKCa_I75(TempK, Sal) ==
    Lit(-34452, 1000) - Coef(39866, 1000, Cbrt(Sal)) + Coef(11021, 100, log10(Sal))
    - Coef(75752, 10 ^ 8, MulDiv(TempK, TempK, 100 * One))

k_calcite_I75(TempK, Sal, Pbar) ==
    LET KCa == LMul(Pow10(-7 * One), LFromFx(polyKCa_I75(TempK, Sal)))
        TempC == TempK2C(TempK)
    IN  LMul(KCa, exp(OverRT(Lit(36, 1) - Coef(2, 10, TempC), Pbar, TempK)))

\* k_aragonite_GEOSECS with the 1.48 of the literature in place of 1.45.
k_aragonite_GEOSECS_148(TempK, Sal, Pbar) ==
    LET KCa == k_calcite_I75(TempK, Sal, Pbar)
        KAr == LMul(LFromFx(Lit(148, 100)), KCa)
        TempC == TempK2C(TempK)
    IN  LMul(KAr, exp(OverRT(Lit(333, 10) - Coef(22, 100, TempC), Pbar, TempK)))

\* k_aragonite_GEOSECS without its own pressure correction.
k_aragonite_GEOSECS_NoPressure(TempK, Sal, Pbar) ==
    LET KCa == k_calcite_I75(TempK, Sal, Pbar)
        KAr == LMul(LFromFx(Lit(145, 100)), KCa)
    IN  KAr

k_aragonite_GEOSECS(TempK, Sal, Pbar) ==
    LET KCa == k_calcite_I75(TempK, Sal, Pbar)
        KAr == LMul(LFromFx(Lit(145, 100)), KCa)
        TempC == TempK2C(TempK)
    IN  LMul(KAr, exp(OverRT(Lit(333, 10) - Coef(22, 100, TempC), Pbar, TempK)))

\* The array <<e(1), ..., e(n)>> of an elementwise expression e.
RECURSIVE Array(_, _)
Array(e(_), n) == IF n = 0 THEN <<>> ELSE Append(Array(e, n - 1), e(n))

\* numpy where: the elements of A where the mask is set, of B elsewhere.
where(mask, A, B) == Array(LAMBDA i : IF mask[i] THEN A[i] ELSE B[i], Len(mask))

\* The GEOSECS mask of a batch: one flag for each sample.
F(WhichKs) == Array(LAMBDA i : WhichKs[i] = 6 \/ WhichKs[i] = 7, Len(WhichKs))

\* The stoichiometric solubility constant of calcite of each sample.
KCa_where(Sal, TempK, Pbar, WhichKs) ==
    where(F(WhichKs),
          Array(LAMBDA i : k_calcite_I75(TempK[i], Sal[i], Pbar[i]), Len(WhichKs)),
          Array(LAMBDA i : k_calcite_M83(TempK[i], Sal[i], Pbar[i]), Len(WhichKs)))

\* The stoichiometric solubility constant of aragonite of each sample.
KAr_where(Sal, TempK, Pbar, WhichKs) ==
    where(F(WhichKs),
          Array(LAMBDA i : k_aragonite_GEOSECS(TempK[i], Sal[i], Pbar[i]), Len(WhichKs)),
          Array(LAMBDA i : k_aragonite_M83(TempK[i], Sal[i], Pbar[i]), Len(WhichKs)))

\* CARB * TCa / Ksp, elementwise.
Omega(CARB, TCa, Ksp) ==
    Array(LAMBDA i : LDiv(LMul(LFromFx(CARB[i]), LFromFx(TCa[i])), Ksp[i]), Len(Ksp))

\* calcite with the branch taken once for the whole batch, on the selector
\* of its first sample.
calcite_BranchOnce(Sal, TempK, Pbar, CARB, TCa, WhichKs, K1, K2) ==
    Omega(CARB, TCa,
          IF WhichKs[1] = 6 \/ WhichKs[1] = 7
          THEN Array(LAMBDA i : k_calcite_I75(TempK[i], Sal[i], Pbar[i]), Len(WhichKs))
          ELSE Array(LAMBDA i : k_calcite_M83(TempK[i], Sal[i], Pbar[i]), Len(WhichKs)))

\* calcite with a solubility product that depends on K1.
calcite_ScaledByK1(Sal, TempK, Pbar, CARB, TCa, WhichKs, K1, K2) ==
    Omega(CARB, TCa,
          Array(LAMBDA i : LMul(KCa_where(Sal, TempK, Pbar, WhichKs)[i], K1[i]),
                Len(WhichKs)))

\* The arguments are arrays of one length, one entry for each sample.
calcite(Sal, TempK, Pbar, CARB, TCa, WhichKs, K1, K2) ==
    Omega(CARB, TCa, KCa_where(Sal, TempK, Pbar, WhichKs))

\* aragonite computed with the solubility product of calcite.
aragonite_CalciteKsp(Sal, TempK, Pbar, CARB, TCa, WhichKs, K1, K2) ==
    Omega(CARB, TCa, KCa_where(Sal, TempK, Pbar, WhichKs))

aragonite(Sal, TempK, Pbar, CARB, TCa, WhichKs, K1, K2) ==
    Omega(CARB, TCa, KAr_where(Sal, TempK, Pbar, WhichKs))

\* CaCO3 handing the pressure on in dbar.
CaCO3_PressureUnconverted(Sal, TempC, Pdbar, CARB, TCa, WhichKs, K1, K2) ==
    LET TempK == Array(LAMBDA i : TempC2K(TempC[i]), Len(TempC))
        Pbar == Pdbar
        OmegaCa == calcite(Sal, TempK, Pbar, CARB, TCa, WhichKs, K1, K2)
        OmegaAr == aragonite(Sal, TempK, Pbar, CARB, TCa, WhichKs, K1, K2)
    IN  <<OmegaCa, OmegaAr>>

\* <<OmegaCa, OmegaAr>>.
CaCO3(Sal, TempC, Pdbar, CARB, TCa, WhichKs, K1, K2) ==
    LET TempK == Array(LAMBDA i : TempC2K(TempC[i]), Len(TempC))
        Pbar == Array(LAMBDA i : Pdbar2bar(Pdbar[i]), Len(Pdbar))
        OmegaCa == calcite(Sal, TempK, Pbar, CARB, TCa, WhichKs, K1, K2)
        OmegaAr == aragonite(Sal, TempK, Pbar, CARB, TCa, WhichKs, K1, K2)
    IN  <<OmegaCa, OmegaAr>>

--------------------------------------------------------------------------
\* The batches of samples the model draws, and the calls made on them.

MaxBatch == 2

MaxPIdx == 1

\* Salinities 10 and 35; temperatures 0 and 25 degrees C; pressures 0,
\* 1000, ... dbar; carbonate 200e-6 mol/kg; calcium 0.0102 mol/kg.
SalGrid == {Lit(10, 1), Lit(35, 1)}

TempCGrid == {0, Lit(25, 1)}

PdbarGrid == {i * Lit(1000, 1) : i \in 0..MaxPIdx}

CARBGrid == {Lit(200, 10 ^ 6)}

TCaGrid == {Lit(102, 10 ^ 4)}

\* Selectors: two of the M83 sets, the two GEOSECS sets and one code
\* outside 1..15.
WhichKsGrid == {1, 4, 6, 7, 16}

\* <<K1, K2>> of a sample, as the constants engine would supply them.
KPairs == {<<Pow10(Lit(-58, 10)), Pow10(Lit(-89, 10))>>,
           <<Pow10(Lit(-61, 10)), Pow10(Lit(-93, 10))>>}

\* The scalar v as an array of n samples.
Broadcast(v, n) == Array(LAMBDA i : v, n)

VARIABLES Sal, TempC, Pdbar, CARB, TCa, WhichKs, last

vars == <<Sal, TempC, Pdbar, CARB, TCa, WhichKs, last>>

inputs == <<Sal, TempC, Pdbar, CARB, TCa, WhichKs>>

N == Len(WhichKs)

TempK == Array(LAMBDA i : TempC2K(TempC[i]), N)

Pbar == Array(LAMBDA i : Pdbar2bar(Pdbar[i]), N)

\* The last call made: the function, its K1 and K2, its failure ("ok" when it
\* returned) and what it returned.
NoCall == [op |-> "none", K1 |-> <<>>, K2 |-> <<>>, status |-> "ok", out |-> <<>>]

\* A batch of 1..MaxBatch samples: a selector for each sample, the other
\* inputs scalars broadcast to the length of the batch.
Init ==
    /\ \E n \in 1..MaxBatch :
          /\ WhichKs \in [1..n -> WhichKsGrid]
          /\ \E x \in SalGrid : Sal = Broadcast(x, n)
          /\ \E t \in TempCGrid : TempC = Broadcast(t, n)
          /\ \E p \in PdbarGrid : Pdbar = Broadcast(p, n)
          /\ \E c \in CARBGrid : CARB = Broadcast(c, n)
          /\ \E c \in TCaGrid : TCa = Broadcast(c, n)
    /\ last = NoCall

Call_CaCO3(kp) ==
    /\ last.op = "none"
    /\ last' = [op |-> "CaCO3", K1 |-> Broadcast(kp[1], N), K2 |-> Broadcast(kp[2], N),
                status |-> "ok",
                out |-> CaCO3(Sal, TempC, Pdbar, CARB, TCa, WhichKs,
                              Broadcast(kp[1], N), Broadcast(kp[2], N))]
    /\ UNCHANGED inputs

Call_calcite(kp) ==
    /\ last.op = "none"
    /\ last' = [op |-> "calcite", K1 |-> Broadcast(kp[1], N), K2 |-> Broadcast(kp[2], N),
                status |-> "ok",
                out |-> calcite(Sal, TempK, Pbar, CARB, TCa, WhichKs,
                                Broadcast(kp[1], N), Broadcast(kp[2], N))]
    /\ UNCHANGED inputs

Call_aragonite(kp) ==
    /\ last.op = "none"
    /\ last' = [op |-> "aragonite", K1 |-> Broadcast(kp[1], N), K2 |-> Broadcast(kp[2], N),
                status |-> "ok",
                out |-> aragonite(Sal, TempK, Pbar, CARB, TCa, WhichKs,
                                  Broadcast(kp[1], N), Broadcast(kp[2], N))]
    /\ UNCHANGED inputs

Call_k_calcite_M83 ==
    /\ last.op = "none"
    /\ last' = [NoCall EXCEPT !.op = "k_calcite_M83",
                   !.out = Array(LAMBDA i : k_calcite_M83(TempK[i], Sal[i], Pbar[i]), N)]
    /\ UNCHANGED inputs

Call_k_aragonite_M83 ==
    /\ last.op = "none"
    /\ last' = [NoCall EXCEPT !.op = "k_aragonite_M83",
                   !.out = Array(LAMBDA i : k_aragonite_M83(TempK[i], Sal[i], Pbar[i]), N)]
    /\ UNCHANGED inputs

Call_k_calcite_I75 ==
    /\ last.op = "none"
    /\ last' = [NoCall EXCEPT !.op = "k_calcite_I75",
                   !.out = Array(LAMBDA i : k_calcite_I75(TempK[i], Sal[i], Pbar[i]), N)]
    /\ UNCHANGED inputs

Call_k_aragonite_GEOSECS ==
    /\ last.op = "none"
    /\ last' = [NoCall EXCEPT !.op = "k_aragonite_GEOSECS",
                   !.out = Array(LAMBDA i : k_aragonite_GEOSECS(TempK[i], Sal[i], Pbar[i]), N)]
    /\ UNCHANGED inputs

\* One call for each batch drawn.
Next ==
    \/ \E kp \in KPairs : Call_CaCO3(kp)
    \/ \E kp \in KPairs : Call_calcite(kp)
    \/ \E kp \in KPairs : Call_aragonite(kp)
    \/ Call_k_calcite_M83
    \/ Call_k_aragonite_M83
    \/ Call_k_calcite_I75
    \/ Call_k_aragonite_GEOSECS

Spec == Init /\ [][Next]_vars

--------------------------------------------------------------------------
\* Vocabulary of the properties.

Samples == 1..N

IsGEOSECS(i) == WhichKs[i] = 6 \/ WhichKs[i] = 7

\* [CO3--] * [Ca++] of sample i.
IonProduct(i) == LMul(LFromFx(CARB[i]), LFromFx(TCa[i]))

\* Sample i has positive carbonate and calcium.
PositiveIons(i) == CARB[i] > 0 /\ TCa[i] > 0

\* Sal > 0, TempK > 0 and Pbar >= 0 for sample i.
Physical(i) == Sal[i] > 0 /\ TempK[i] > 0 /\ Pbar[i] >= 0

\* The exponent (33.3 - 0.22 * TempC) * Pbar / (R * TempK) of sample i, TempC
\* being TempK in degrees C.
GeosecsArExponent(i) ==
    OverRT(Lit(333, 10) - Coef(22, 100, TempK2C(TempK[i])), Pbar[i], TempK[i])

LOne == [fin |-> TRUE, sgn |-> 1, ln |-> 0]

\* The solubility products op ("calcite" or "aragonite") selects for the batch.
SelectedKsp(op) ==
    IF op = "calcite" THEN KCa_where(Sal, TempK, Pbar, WhichKs)
    ELSE KAr_where(Sal, TempK, Pbar, WhichKs)

--------------------------------------------------------------------------
\* C1: dispatch is per element: for every sample i of every batch, calcite
\* divides CARB[i] * TCa[i] by k_calcite_I75 of sample i when WhichKs[i] is 6
\* or 7 and by k_calcite_M83 of sample i otherwise, and aragonite by
\* k_aragonite_GEOSECS or k_aragonite_M83, also in a batch that mixes
\* GEOSECS and other selectors.
C1_PerElementDispatch ==
    /\ last.op = "calcite" =>
          \A i \in Samples :
             last.out[i] =
                LDiv(IonProduct(i),
                     IF IsGEOSECS(i) THEN k_calcite_I75(TempK[i], Sal[i], Pbar[i])
                     ELSE k_calcite_M83(TempK[i], Sal[i], Pbar[i]))
    /\ last.op = "aragonite" =>
          \A i \in Samples :
             last.out[i] =
                LDiv(IonProduct(i),
                     IF IsGEOSECS(i) THEN k_aragonite_GEOSECS(TempK[i], Sal[i], Pbar[i])
                     ELSE k_aragonite_M83(TempK[i], Sal[i], Pbar[i]))

\* A batch whose first sample has WhichKs = 6 and whose second has WhichKs = 4
\* went through calcite, and the two ratios differ.
C1_MixedBatchWitness ==
    /\ last.op = "calcite"
    /\ N >= 2
    /\ WhichKs[1] = 6 /\ WhichKs[2] = 4
    /\ PositiveIons(1)
    /\ last.out[1] # last.out[2]

\* C2: the pair CaCO3 returns is <<OmegaCa, OmegaAr>>, where OmegaCa is what
\* calcite returns for TempK = TempC + 273.15 and Pbar = Pdbar / 10, and
\* OmegaAr what aragonite returns for the same converted values.
C2_CaCO3IsCalciteAndAragonite ==
    last.op = "CaCO3" =>
       /\ last.out[1] =
             calcite(Sal, Array(LAMBDA i : TempC[i] + Lit(27315, 100), N),
                     Array(LAMBDA i : MulDiv(Pdbar[i], 1, 10), N),
                     CARB, TCa, WhichKs, last.K1, last.K2)
       /\ last.out[2] =
             aragonite(Sal, Array(LAMBDA i : TempC[i] + Lit(27315, 100), N),
                       Array(LAMBDA i : MulDiv(Pdbar[i], 1, 10), N),
                       CARB, TCa, WhichKs, last.K1, last.K2)

\* CaCO3 returned for a sample under pressure with carbonate in it, so that
\* both conversions matter and the two ratios differ.
C2_Witness ==
    /\ last.op = "CaCO3"
    /\ Pdbar[1] > 0 /\ TempC[1] > 0 /\ PositiveIons(1)
    /\ last.out[1][1] # last.out[2][1]

C4_ZeroPressure ==
    \A i \in Samples :
       Pbar[i] = 0 =>
          /\ last.op = "k_calcite_M83" =>
                /\ lnKCafac(TempK[i], Pbar[i]) = 0
                /\ exp(lnKCafac(TempK[i], Pbar[i])) = LOne
                /\ last.out[i] = Pow10(logKCa_M83(TempK[i], Sal[i]))
          /\ last.op = "k_aragonite_M83" =>
                /\ lnKArfac(TempK[i], Pbar[i]) = 0
                /\ exp(lnKArfac(TempK[i], Pbar[i])) = LOne
                /\ last.out[i] = Pow10(logKAr_M83(TempK[i], Sal[i]))

\* k_calcite_M83 returned for a sample at the surface.
C4_Witness ==
    /\ last.op = "k_calcite_M83"
    /\ Pdbar[1] = 0
    /\ last.out[1].sgn = 1

C6_InvalidSelectorRejected ==
    (/\ last.op \in {"calcite", "aragonite", "CaCO3"}
     /\ \E i \in Samples : WhichKs[i] \notin 1..15)
       => /\ last.status = "InvalidSelector"
          /\ last.out = <<>>

\* C7: K1 and K2 are not used: calcite, aragonite and CaCO3 return the same
\* arrays for every K1 and K2 when the other arguments are the same.
C7_K1K2Unused ==
    last.op \in {"calcite", "aragonite", "CaCO3"} =>
       \A kp \in KPairs :
          kp # <<last.K1[1], last.K2[1]>> =>
             /\ last.op = "calcite" =>
                   last.out = calcite(Sal, TempK, Pbar, CARB, TCa, WhichKs,
                                      Broadcast(kp[1], N), Broadcast(kp[2], N))
             /\ last.op = "aragonite" =>
                   last.out = aragonite(Sal, TempK, Pbar, CARB, TCa, WhichKs,
                                        Broadcast(kp[1], N), Broadcast(kp[2], N))
             /\ last.op = "CaCO3" =>
                   last.out = CaCO3(Sal, TempC, Pdbar, CARB, TCa, WhichKs,
                                    Broadcast(kp[1], N), Broadcast(kp[2], N))

\* calcite returned a ratio other than 0 for a call whose K1 is not the K1
\* of every pair the calls are made with.
C7_Witness ==
    /\ last.op = "calcite"
    /\ PositiveIons(1)
    /\ last.out[1].fin /\ last.out[1].sgn # 0
    /\ \E kp \in KPairs : last.K1[1] # kp[1] /\ last.K2[1] # kp[2]

C9_AragoniteCorrection ==
    last.op = "k_aragonite_M83" =>
       \A i \in Samples :
          LET TC == TempK2C(TempK[i])
              deltaV_ca == Lit(-4876, 100) + Coef(5304, 10000, TC)
              kappa_ca == MulDiv(Lit(-1176, 100) + Coef(3692, 10000, TC), 1, 1000)
          IN  /\ deltaKappaCalcite_I75(TC) = <<deltaV_ca, kappa_ca>>
              /\ deltaKappaAragonite(TC) = <<deltaV_ca + Lit(28, 10), kappa_ca>>
              /\ last.out[i] =
                    LMul(Pow10(logKAr_M83(TempK[i], Sal[i])),
                         exp(OverRT(-(deltaV_ca + Lit(28, 10))
                                    + MulDiv(kappa_ca, Pbar[i], 2 * One),
                                    Pbar[i], TempK[i])))
              /\ Abs(lnKArfac(TempK[i], Pbar[i])
                     - (lnKCafac(TempK[i], Pbar[i])
                        + OverRT(-Lit(28, 10), Pbar[i], TempK[i]))) <= 1

\* k_aragonite_M83 returned for a sample under pressure, where the offset
\* of 2.8 makes the aragonite exponent smaller than the calcite one.
C9_Witness ==
    /\ last.op = "k_aragonite_M83"
    /\ Pbar[1] > 0
    /\ lnKArfac(TempK[1], Pbar[1]) < lnKCafac(TempK[1], Pbar[1])

====
